---- MODULE Spec2Model ----
(***************************************************************************)
(* Beat metadata extraction pipeline (format_beats.py and                  *)
(* format_beats_no_ai_backup.py): filename sanitizer, filename metadata    *)
(* extractors, mood classifier and the batch driver process_all_files.     *)
(*                                                                         *)
(* A Python str is modelled as a sequence of one-character strings.  A     *)
(* character outside ASCII is written as its code point, e.g. "U+00E9".    *)
(***************************************************************************)
EXTENDS Integers, Sequences, FiniteSets, TLC

VARIABLES
    arg,         \* pure-function harness: the argument drawn at Init
    res,         \* pure-function harness: the results of the calls made so far
    ai,          \* TRUE: BeatFormatter (format_beats.py); FALSE: BeatFormatterNoAI
    dry_run,     \* the --dry-run flag
    dir_exists,  \* whether the beats directory exists
    fs,          \* the beats directory: file name -> file content
    mp3_files,   \* the list scan_mp3_files returned
    idx,         \* position of the for loop of process_all_files in mp3_files
    pc,          \* control point of main
    beats_data,  \* self.beats_data
    saved,       \* the batch document written by save_beats_json, if any
    exit_code,   \* what main returned, if it has returned
    hist         \* per loop iteration: the file, what its environment did, the outcome

pureVars == <<arg, res>>

batchVars == <<ai, dry_run, dir_exists, fs, mp3_files, idx, pc, beats_data,
               saved, exit_code, hist>>

vars == <<arg, res, ai, dry_run, dir_exists, fs, mp3_files, idx, pc,
          beats_data, saved, exit_code, hist>>

\* An Optional value: None, or a one-element tuple holding the value.
None == <<>>

Some(v) == <<v>>

\* Python truthiness of an Optional[int].
Truthy(x) == x # None /\ x[1] # 0

----------------------------------------------------------------------------
(* Character classes of Python's re module on str patterns.                *)

Digit == {"0", "1", "2", "3", "4", "5", "6", "7", "8", "9"}

Lower == {"a", "b", "c", "d", "e", "f", "g", "h", "i", "j", "k", "l", "m",
          "n", "o", "p", "q", "r", "s", "t", "u", "v", "w", "x", "y", "z"}

Upper == {"A", "B", "C", "D", "E", "F", "G", "H", "I", "J", "K", "L", "M",
          "N", "O", "P", "Q", "R", "S", "T", "U", "V", "W", "X", "Y", "Z"}

\* Letters outside ASCII that str.isalnum() accepts, so \w matches them.
NonAsciiLetter == {"U+00E9"}

AsciiAlnum == Digit \cup Lower \cup Upper

\* \w on a str pattern: Unicode alphanumerics and the underscore.
IsWord(c) == c \in AsciiAlnum \cup NonAsciiLetter \cup {"_"}

\* \s on a str pattern.
IsSpace(c) == c \in {" ", "\t", "\n", "\r"}

\* \d
IsDigit(c) == c \in Digit

\* Case folding used by re.IGNORECASE for the ASCII letters of the patterns.
ToLowerChar(c) ==
    CASE c = "A" -> "a" [] c = "B" -> "b" [] c = "C" -> "c" [] c = "D" -> "d"
      [] c = "E" -> "e" [] c = "F" -> "f" [] c = "G" -> "g" [] c = "H" -> "h"
      [] c = "I" -> "i" [] c = "J" -> "j" [] c = "K" -> "k" [] c = "L" -> "l"
      [] c = "M" -> "m" [] c = "N" -> "n" [] c = "O" -> "o" [] c = "P" -> "p"
      [] c = "Q" -> "q" [] c = "R" -> "r" [] c = "S" -> "s" [] c = "T" -> "t"
      [] c = "U" -> "u" [] c = "V" -> "v" [] c = "W" -> "w" [] c = "X" -> "x"
      [] c = "Y" -> "y" [] c = "Z" -> "z" [] OTHER -> c

\* str.lower()
ToLower(s) == [i \in 1..Len(s) |-> ToLowerChar(s[i])]

\* s[from:] in Python terms, 1-based here.
Drop(s, n) == SubSeq(s, n + 1, Len(s))

\* Whether the literal lit occurs in s at position i.
MatchAt(s, i, lit) ==
    /\ i >= 1
    /\ i + Len(lit) - 1 <= Len(s)
    /\ \A k \in 1..Len(lit) : s[i + k - 1] = lit[k]

\* lit in s
Contains(s, lit) == \E i \in 1..Len(s) : MatchAt(s, i, lit)

\* The concatenation of a sequence of strings.
RECURSIVE Concat(_)
Concat(ss) == IF ss = <<>> THEN <<>> ELSE Head(ss) \o Concat(Tail(ss))

----------------------------------------------------------------------------
(* sanitize_filename, identical in both formatters.                        *)

Mp3Ext == <<".", "m", "p", "3">>

\* The index of the last "." of name, 0 when there is none (str.rfind + 1).
LastDot(name) ==
    LET dots == {i \in 1..Len(name) : name[i] = "."}
    IN  IF dots = {} THEN 0 ELSE CHOOSE i \in dots : \A j \in dots : j <= i

\* Path(original_filename).stem: the name without its last suffix; a name
\* whose only dot is the first or the last character has no suffix.
PathStem(name) ==
    LET i == LastDot(name)
    IN  IF name = <<".">> THEN <<>>
        ELSE IF 1 < i /\ i < Len(name) THEN SubSeq(name, 1, i - 1)
        ELSE name

\* re.sub(r'^\d{8}_', '', s)
StripDatePrefix(s) ==
    IF /\ Len(s) >= 9
       /\ \A i \in 1..8 : IsDigit(s[i])
       /\ s[9] = "_"
    THEN Drop(s, 9)
    ELSE s

\* The number of leading whitespace characters of s.
RECURSIVE LeadingSpaces(_)
LeadingSpaces(s) ==
    IF s # <<>> /\ IsSpace(Head(s)) THEN 1 + LeadingSpaces(Tail(s)) ELSE 0

\* re.sub(r'^\[?\(?FREE\)?\]?\s*', '', s, flags=re.IGNORECASE): each optional
\* bracket is taken when present (skipping one that is present never lets
\* FREE match), then FREE, then the optional closers, then all whitespace.
StripFreePrefix(s) ==
    LET a == IF s # <<>> /\ Head(s) = "[" THEN 1 ELSE 0
        b == IF Len(s) > a /\ s[a + 1] = "(" THEN a + 1 ELSE a
        hit == MatchAt(ToLower(s), b + 1, <<"f", "r", "e", "e">>)
        c == b + 4
        d == IF Len(s) > c /\ s[c + 1] = ")" THEN c + 1 ELSE c
        e == IF Len(s) > d /\ s[d + 1] = "]" THEN d + 1 ELSE d
    IN  IF hit THEN Drop(s, e + LeadingSpaces(Drop(s, e))) ELSE s

KeptBySanitizer(c) == IsWord(c) \/ IsSpace(c) \/ c = "-"

\* re.sub(r'[^\w\s\-]', '', s)
RemoveSpecial(s) == SelectSeq(s, KeptBySanitizer)

\* re.sub(r'\s+', ' ', s)
RECURSIVE CollapseSpaces(_)
CollapseSpaces(s) ==
    IF s = <<>> THEN <<>>
    ELSE IF IsSpace(Head(s))
         THEN <<" ">> \o CollapseSpaces(Drop(s, LeadingSpaces(s)))
         ELSE <<Head(s)>> \o CollapseSpaces(Tail(s))

\* s.replace(' ', '-')
SpacesToHyphens(s) == [i \in 1..Len(s) |-> IF s[i] = " " THEN "-" ELSE s[i]]

\* re.sub(r'-+', '-', s)
RECURSIVE CollapseHyphens(_)
CollapseHyphens(s) ==
    IF s = <<>> THEN <<>>
    ELSE IF Head(s) = "-" /\ Len(s) > 1 /\ s[2] = "-"
         THEN CollapseHyphens(Tail(s))
         ELSE <<Head(s)>> \o CollapseHyphens(Tail(s))

\* s.strip('-')
StripHyphens(s) ==
    LET keep == {i \in 1..Len(s) : s[i] # "-"}
    IN  IF keep = {} THEN <<>>
        ELSE SubSeq(s, CHOOSE i \in keep : \A j \in keep : i <= j,
                       CHOOSE i \in keep : \A j \in keep : j <= i)

sanitize_filename(original_filename) ==
    LET name_without_ext  == PathStem(original_filename)
        name_without_date == StripDatePrefix(name_without_ext)
        name_free         == StripFreePrefix(name_without_date)
        name_kept         == RemoveSpecial(name_free)
        name_spaced       == CollapseSpaces(name_kept)
        name_hyphened     == SpacesToHyphens(name_spaced)
        name_single       == CollapseHyphens(name_hyphened)
        name_cleaned      == StripHyphens(name_single)
    IN  name_cleaned \o Mp3Ext

----------------------------------------------------------------------------
(* Helpers of the filename metadata extractors.                            *)

Min(S) == CHOOSE x \in S : \A y \in S : x <= y

Max(S) == CHOOSE x \in S : \A y \in S : y <= x

\* str.strip()
Strip(s) ==
    LET keep == {i \in 1..Len(s) : ~IsSpace(s[i])}
    IN  IF keep = {} THEN <<>> ELSE SubSeq(s, Min(keep), Max(keep))

\* n digits at position i of s.
DigitsAt(s, i, n) ==
    /\ i + n - 1 <= Len(s)
    /\ \A k \in 0..(n - 1) : IsDigit(s[i + k])

\* re.search(r'20\d{2}', s): the first "20" followed by two digits, else "".
ExtractYear(s) ==
    LET hits == {i \in 1..Len(s) : MatchAt(s, i, <<"2", "0">>) /\ DigitsAt(s, i + 2, 2)}
    IN  IF hits = {} THEN <<>> ELSE SubSeq(s, Min(hits), Min(hits) + 3)

\* (\d{n})BPM at position i, ignoring case.
BpmAt(s, i, n) ==
    /\ DigitsAt(s, i, n)
    /\ MatchAt(ToLower(s), i + n, <<"b", "p", "m">>)

\* re.search(r'(\d{2,3})BPM', s, re.IGNORECASE): leftmost start, three
\* digits preferred to two; group 1, else "".
ExtractBpm(s) ==
    LET hits == {i \in 1..Len(s) : BpmAt(s, i, 3) \/ BpmAt(s, i, 2)}
        i0   == Min(hits)
    IN  IF hits = {} THEN <<>>
        ELSE SubSeq(s, i0, i0 + (IF BpmAt(s, i0, 3) THEN 3 ELSE 2) - 1)

\* The character class of the title pattern: the straight double quote
\* (the pattern lists it three times).
TitleQuote == {"\""}

\* re.search(r'["""]([^"""]+)["""]', s): the first quote that is followed by
\* at least one non-quote character and then a quote; group 1, else "".
ExtractTitle(s) ==
    LET closes(i) == {j \in (i + 1)..Len(s) : s[j] \in TitleQuote}
        hits == {i \in 1..Len(s) : /\ s[i] \in TitleQuote
                                   /\ closes(i) # {}
                                   /\ Min(closes(i)) > i + 1}
        i0   == Min(hits)
    IN  IF hits = {} THEN <<>> ELSE SubSeq(s, i0 + 1, Min(closes(i0)) - 1)

\* The last index of the run of characters other than ")" that starts at i.
BeforeParen(s, i) ==
    LET stops == {j \in i..Len(s) : s[j] = ")"}
    IN  IF stops = {} THEN Len(s) ELSE Min(stops) - 1

\* Where group 1 of r'\(?Prod\.?\s*([^)]+)\)?' starts when "prod" is at i;
\* 0 when the pattern does not match there.  The optional dot and the
\* whitespace are taken greedily; when nothing but ")" or the end follows,
\* the group backtracks into the last whitespace character or the dot.
ProducerStart(s, i) ==
    LET p == i + 4
        d == IF p <= Len(s) /\ s[p] = "." THEN 1 ELSE 0
        w == LeadingSpaces(Drop(s, p + d - 1))
        r == p + d + w
    IN  IF ~MatchAt(ToLower(s), i, <<"p", "r", "o", "d">>) THEN 0
        ELSE IF r <= Len(s) /\ s[r] # ")" THEN r
        ELSE IF w > 0 \/ d = 1 THEN r - 1
        ELSE 0

\* re.search(r'\(?Prod\.?\s*([^)]+)\)?', s, re.IGNORECASE), group(1).strip().
ExtractProducer(s) ==
    LET hits == {i \in 1..Len(s) : ProducerStart(s, i) > 0}
        st   == ProducerStart(s, Min(hits))
    IN  IF hits = {} THEN <<>> ELSE Strip(SubSeq(s, st, BeforeParen(s, st)))

\* [A-Z] under re.IGNORECASE.
IsLetter(c) == ToLowerChar(c) \in Lower

\* [a-z\.\s] under re.IGNORECASE.
InArtistClass(c) == IsLetter(c) \/ c = "." \/ IsSpace(c)

\* Whether r'\s+type\s+beat' matches at position k, ignoring case.
TypeBeatAt(s, k) ==
    LET w1 == LeadingSpaces(Drop(s, k - 1))
        w2 == LeadingSpaces(Drop(s, k - 1 + w1 + 4))
    IN  /\ w1 >= 1
        /\ MatchAt(ToLower(s), k + w1, <<"t", "y", "p", "e">>)
        /\ w2 >= 1
        /\ MatchAt(ToLower(s), k + w1 + 4 + w2, <<"b", "e", "a", "t">>)

\* The last index of the run of [a-z\.\s] characters that starts at i.
ArtistRunEnd(s, i) ==
    LET stops == {j \in i..Len(s) : ~InArtistClass(s[j])}
    IN  IF stops = {} THEN Len(s) ELSE Min(stops) - 1

\* The ends k of group 1 of
\*   r'([A-Z][a-z\.\s]+(?:\s+x\s+[A-Z][a-z\.\s]+)*)\s+type\s+beat'
\* for a match starting at i.  Under IGNORECASE " x Name" is itself made of
\* [a-z\.\s] characters, so the group is a letter followed by one or more
\* class characters, and the greedy match takes the longest.
TypeBeatEnds(s, i) ==
    IF ~IsLetter(s[i]) THEN {}
    ELSE {k \in (i + 1)..ArtistRunEnd(s, i) : TypeBeatAt(s, k + 1)}

\* re.findall(pattern, s, re.IGNORECASE)[0] for the first type-beat pattern,
\* wrapped in a tuple; <<>> when findall returns no match.  The three
\* patterns of the source differ only in the case of "type beat", which
\* IGNORECASE makes irrelevant, so the first decides.
TypeBeatMatch(s) ==
    LET hits == {i \in 1..Len(s) : TypeBeatEnds(s, i) # {}}
        i0   == Min(hits)
    IN  IF hits = {} THEN <<>> ELSE <<SubSeq(s, i0, Max(TypeBeatEnds(s, i0)))>>

ArtistSep == <<" ", "x", " ">>

\* s.split(' x ')
RECURSIVE SplitX(_)
SplitX(s) ==
    LET hits == {i \in 1..Len(s) : MatchAt(s, i, ArtistSep)}
    IN  IF hits = {} THEN <<s>>
        ELSE <<SubSeq(s, 1, Min(hits) - 1)>> \o SplitX(Drop(s, Min(hits) + 2))

TypeBeatSuffix == <<" ", "T", "y", "p", "e", " ", "B", "e", "a", "t">>

KwTypeBeat     == <<"t", "y", "p", "e", " ", "b", "e", "a", "t">>
KwInstrumental == <<"i", "n", "s", "t", "r", "u", "m", "e", "n", "t", "a", "l">>
KwHipHop       == <<"h", "i", "p", " ", "h", "o", "p">>
KwTrap         == <<"t", "r", "a", "p">>
KwBoomBap      == <<"b", "o", "o", "m", " ", "b", "a", "p">>
KwLofi         == <<"l", "o", "f", "i">>

TyInstrumental == <<"I", "n", "s", "t", "r", "u", "m", "e", "n", "t", "a", "l">>
TyHipHop       == <<"H", "i", "p", " ", "H", "o", "p">>
TyTrap         == <<"T", "r", "a", "p">>
TyBoomBap      == <<"B", "o", "o", "m", " ", "B", "a", "p">>
TyLoFi         == <<"L", "o", "-", "F", "i">>
TyTypeBeat     == <<"T", "y", "p", "e", " ", "B", "e", "a", "t">>

\* The keyword chain used when no type-beat pattern matched.
FallbackType(s) ==
    LET low == ToLower(s)
    IN  IF Contains(low, KwInstrumental) THEN TyInstrumental
        ELSE IF Contains(low, KwHipHop) THEN TyHipHop
        ELSE IF Contains(low, KwTrap) THEN TyTrap
        ELSE IF Contains(low, KwBoomBap) THEN TyBoomBap
        ELSE IF Contains(low, KwLofi) THEN TyLoFi
        ELSE <<>>

----------------------------------------------------------------------------
(* The text sentiment of a filename.  A score is kept in fixed point, in   *)
(* hundred-thousandths; the lexicon analyzer's compound score comes in     *)
(* ten-thousandths (it is rounded to four decimals).                       *)

\* sentiment_scores['compound'], "-1 to 1", in ten-thousandths
Compounds == -10000..10000

\* emotional_keywords['positive']
PositiveKeywords ==
    { <<"h", "o", "p", "e">>,
      <<"l", "o", "v", "e">>,
      <<"d", "r", "e", "a", "m">>,
      <<"h", "e", "a", "v", "e", "n">>,
      <<"p", "e", "a", "c", "e", "f", "u", "l">>,
      <<"g", "e", "n", "t", "l", "e">>,
      <<"h", "a", "p", "p", "y">>,
      <<"j", "o", "y">>,
      <<"l", "i", "g", "h", "t">>,
      <<"s", "u", "n">>,
      <<"m", "o", "r", "n", "i", "n", "g">>,
      <<"f", "e", "e", "l", "i", "n", "g", "s">> }

\* emotional_keywords['negative']
NegativeKeywords ==
    { <<"s", "a", "d">>,
      <<"a", "l", "o", "n", "e">>,
      <<"d", "a", "r", "k">>,
      <<"h", "e", "l", "l">>,
      <<"a", "n", "g", "r", "y">>,
      <<"v", "i", "o", "l", "e", "n", "t">>,
      <<"h", "a", "t", "e">>,
      <<"a", "g", "g", "r", "e", "s", "s", "i", "v", "e">>,
      <<"h", "a", "r", "d">>,
      <<"r", "o", "u", "g", "h">>,
      <<"n", "i", "g", "h", "t">>,
      <<"e", "v", "i", "l">>,
      <<"s", "i", "n", "i", "s", "t", "e", "r">>,
      <<"d", "e", "v", "i", "o", "u", "s">> }

\* sum(1 for word in words if word in filename_lower)
KeywordCount(filename_lower, words) ==
    Cardinality({w \in words : Contains(filename_lower, w)})

\* The score the keywords push a very neutral text to.
KeywordScore(positive_count, negative_count) ==
    IF positive_count > negative_count THEN 30000
    ELSE IF negative_count > positive_count THEN -30000
    ELSE -10000

\* The correction with the bound 0.1 itself counted as very neutral.
DecisiveScoreInclusive(compound, filename_lower) ==
    IF -1000 <= compound /\ compound <= 1000
    THEN KeywordScore(KeywordCount(filename_lower, PositiveKeywords),
                      KeywordCount(filename_lower, NegativeKeywords))
    ELSE compound * 10

\* "Make VADER more decisive": abs(sentiment_score) < 0.1 hands the decision
\* to the keywords.
DecisiveScore(compound, filename_lower) ==
    IF -1000 < compound /\ compound < 1000
    THEN KeywordScore(KeywordCount(filename_lower, PositiveKeywords),
                      KeywordCount(filename_lower, NegativeKeywords))
    ELSE compound * 10

\* The amplification without min(1.0, .) and max(-1.0, .).
AmplifyUnclamped(score) ==
    IF score > 20000 \/ score < -20000 THEN (score * 13) \div 10 ELSE score

\* The amplification with the scores 0.2 and -0.2 amplified too.
AmplifyInclusive(score) ==
    IF score >= 20000 THEN Min({100000, (score * 13) \div 10})
    ELSE IF score <= -20000 THEN Max({-100000, (score * 13) \div 10})
    ELSE score

\* "Apply additional bias for stronger classifications"
Amplify(score) ==
    IF score > 20000 THEN Min({100000, (score * 13) \div 10})
    ELSE IF score < -20000 THEN Max({-100000, (score * 13) \div 10})
    ELSE score

\* int(round(n / d)) for n >= 0, d > 0: halves go to the even integer.
RoundRatio(n, d) ==
    IF 2 * (n % d) < d THEN n \div d
    ELSE IF 2 * (n % d) > d THEN (n \div d) + 1
    ELSE IF (n \div d) % 2 = 0 THEN n \div d ELSE (n \div d) + 1

\* The curve with every bucket boundary handed to the bucket below it.
DisplayCurveExclusive(score) ==
    IF score > 50000 THEN RoundRatio(800000 + (score - 50000) * 4, 100000)
    ELSE IF score > 10000 THEN RoundRatio(600000 + (score - 10000) * 5, 100000)
    ELSE IF score > -10000 THEN 5
    ELSE IF score > -50000 THEN RoundRatio(300000 + (score + 50000) * 5, 100000)
    ELSE RoundRatio(100000 + (score + 100000) * 2, 100000)

\* "Convert to 1-10 scale with more decisive distribution", before the
\* final clamp.
DisplayCurve(score) ==
    IF score >= 50000 THEN RoundRatio(800000 + (score - 50000) * 4, 100000)
    ELSE IF score >= 10000 THEN RoundRatio(600000 + (score - 10000) * 5, 100000)
    ELSE IF score >= -10000 THEN 5
    ELSE IF score >= -50000 THEN RoundRatio(300000 + (score + 50000) * 5, 100000)
    ELSE RoundRatio(100000 + (score + 100000) * 2, 100000)

\* "Ensure bounds"
SentimentDisplay(score) == Max({1, Min({10, DisplayCurve(score)})})

\* The sentiment part of extract_metadata_from_filename: compound is what
\* the lexicon analyzer made of the filename.
TextSentiment(original_filename, compound) ==
    Amplify(DecisiveScore(compound, ToLower(original_filename)))

----------------------------------------------------------------------------
(* The metadata extractors.  A Python value that may be a dict or not is   *)
(* tagged: [t |-> "object", fields |-> the dict] or [t |-> another JSON    *)
(* type].                                                                  *)

\* The artists list for the stripped text of a type-beat match.
ArtistsOf(artist_text, parts) ==
    IF Contains(artist_text, ArtistSep)
    THEN [i \in 1..Len(parts) |-> Strip(parts[i])]
    ELSE <<artist_text>>

\* The dict returned by extract_metadata_from_filename, given the type and
\* the artists it detected.
MetadataDict(original_filename, type_beat, artists, sentiment_score) ==
    [trackTitle       |-> ExtractTitle(original_filename),
     producer         |-> ExtractProducer(original_filename),
     type             |-> type_beat,
     artists          |-> artists,
     mood             |-> "",
     genre            |-> TyHipHop,
     year             |-> ExtractYear(original_filename),
     bpm              |-> ExtractBpm(original_filename),
     sentimentScore   |-> sentiment_score,
     sentimentDisplay |-> SentimentDisplay(sentiment_score)]

\* The type-beat branch, for the stripped text of the first match.
TypeBeatMetadata(original_filename, artist_text, sentiment_score) ==
    MetadataDict(original_filename, artist_text \o TypeBeatSuffix,
                 ArtistsOf(artist_text, SplitX(artist_text)), sentiment_score)

MetadataFor(original_filename, matches, sentiment_score) ==
    IF matches # <<>>
    THEN TypeBeatMetadata(original_filename, Strip(matches[1]), sentiment_score)
    ELSE MetadataDict(original_filename, FallbackType(original_filename), <<>>,
                      sentiment_score)

\* BeatFormatterNoAI.extract_metadata_from_filename: the fields parsed from
\* the filename and its sentiment; compound is the lexicon analyzer's
\* compound score of the filename.
extract_metadata_from_filename(original_filename, compound) ==
    MetadataFor(original_filename, TypeBeatMatch(original_filename),
                TextSentiment(original_filename, compound))

\* BeatFormatter._fallback_metadata
fallback_metadata(original_filename) ==
    LET low       == ToLower(original_filename)
        type_beat == IF Contains(low, KwTypeBeat) THEN TyTypeBeat
                     ELSE IF Contains(low, KwInstrumental) THEN TyInstrumental
                     ELSE IF Contains(low, KwHipHop) THEN TyHipHop
                     ELSE <<>>
    IN  [trackTitle |-> <<>>,
         producer   |-> <<>>,
         type       |-> type_beat,
         mood       |-> "",
         genre      |-> TyHipHop,
         year       |-> ExtractYear(original_filename),
         bpm        |-> ExtractBpm(original_filename)]

\* BeatFormatter.extract_metadata_with_ai.  reply is what the service call
\* did: [kind |-> "error"] when the call raised (or the reply had no text),
\* [kind |-> "text"] when its content is not JSON, and
\* [kind |-> "json", value |-> v] when json.loads returned v, which is
\* handed back whatever its type.
extract_metadata_with_ai(original_filename, reply) ==
    IF reply.kind = "json" THEN reply.value
    ELSE [t |-> "object", fields |-> fallback_metadata(original_filename)]

----------------------------------------------------------------------------
(* determine_mood_from_bpm                                                 *)

\* The thresholds taken as exclusive upper bounds.
determine_mood_exclusive(bpm) ==
    IF bpm < 69 THEN "Chill"
    ELSE IF bpm < 95 THEN "R&B"
    ELSE IF bpm < 125 THEN "Boom Bap"
    ELSE "Trap"

determine_mood_from_bpm(bpm) ==
    IF bpm <= 69 THEN "Chill"
    ELSE IF bpm <= 95 THEN "R&B"
    ELSE IF bpm <= 125 THEN "Boom Bap"
    ELSE "Trap"

----------------------------------------------------------------------------
(* generate_waveform_and_bpm.  A float is kept in fixed point: a tempo in  *)
(* tenths of a beat per minute, a normalized RMS value in thousandths.     *)

DefaultMaxPoints == 1000

\* int(round(x)) of a non-negative float given in tenths: Python rounds
\* halves to the even integer.
RoundHalfEven(t) ==
    LET q == t \div 10
        r == t % 10
    IN  IF r < 5 THEN q
        ELSE IF r > 5 THEN q + 1
        ELSE IF q % 2 = 0 THEN q ELSE q + 1

SeqMax(s) == Max({s[i] : i \in 1..Len(s)})

\* rms / np.max(rms) if np.max(rms) > 0 else rms
Normalize(rms) ==
    IF rms # <<>> /\ SeqMax(rms) > 0
    THEN [i \in 1..Len(rms) |-> (rms[i] * 1000) \div SeqMax(rms)]
    ELSE rms

\* Evenly spaced positions rounded to the nearest integer, halves upwards.
LinspaceNearest(n, max_points) ==
    [i \in 1..max_points |->
        IF max_points = 1 THEN 1
        ELSE 1 + (2 * (i - 1) * (n - 1) + (max_points - 1)) \div (2 * (max_points - 1))]

\* np.linspace(0, n - 1, max_points, dtype=int), as 1-based positions: the
\* evenly spaced values are floored to integers.
LinspaceIndices(n, max_points) ==
    [i \in 1..max_points |->
        IF max_points = 1 THEN 1
        ELSE 1 + ((i - 1) * (n - 1)) \div (max_points - 1)]

\* generate_waveform_and_bpm without the downsampling branch: every frame
\* is returned.
generate_waveform_and_bpm_uncapped(audio, max_points) ==
    IF ~audio.ok
    THEN [raised |-> FALSE, waveform |-> <<>>, exact |-> None, display |-> None]
    ELSE [raised   |-> FALSE,
          waveform |-> Normalize(audio.rms),
          exact    |-> Some(audio.tempo),
          display  |-> Some(RoundHalfEven(audio.tempo))]

\* generate_waveform_and_bpm without its except clause: a decode failure
\* propagates to the caller.
generate_waveform_and_bpm_unguarded(audio, max_points) ==
    [raised |-> ~audio.ok, waveform |-> <<>>, exact |-> None, display |-> None]

\* audio is what librosa makes of the file: [ok |-> FALSE] when loading or
\* beat tracking raises, else [ok |-> TRUE, tempo |-> t, rms |-> frames].
\* The except clause turns every failure into the all-absent result, so the
\* call itself never raises.
generate_waveform_and_bpm(audio, max_points) ==
    IF ~audio.ok
    THEN [raised |-> FALSE, waveform |-> <<>>, exact |-> None, display |-> None]
    ELSE LET rms_normalized == Normalize(audio.rms)
             indices  == LinspaceIndices(Len(rms_normalized), max_points)
             waveform == IF Len(rms_normalized) > max_points
                         THEN [i \in 1..max_points |-> rms_normalized[indices[i]]]
                         ELSE rms_normalized
         IN  [raised   |-> FALSE,
              waveform |-> waveform,
              exact    |-> Some(audio.tempo),
              display  |-> Some(RoundHalfEven(audio.tempo))]

----------------------------------------------------------------------------
(* extract_album_art.  A byte is a number in 0..255, a picture frame is    *)
(* [mime |-> its declared MIME type, data |-> its bytes].                  *)

\* The alphabet of base64.b64encode
B64Alphabet ==
    <<"A", "B", "C", "D", "E", "F", "G", "H", "I", "J", "K", "L", "M", "N", "O", "P">> \o
    <<"Q", "R", "S", "T", "U", "V", "W", "X", "Y", "Z", "a", "b", "c", "d", "e", "f">> \o
    <<"g", "h", "i", "j", "k", "l", "m", "n", "o", "p", "q", "r", "s", "t", "u", "v">> \o
    <<"w", "x", "y", "z", "0", "1", "2", "3", "4", "5", "6", "7", "8", "9", "+", "/">>

B64Pad == "="

\* base64.b64encode(data).decode('utf-8')
RECURSIVE B64Encode(_)
B64Encode(data) ==
    IF data = <<>> THEN <<>>
    ELSE IF Len(data) = 1
    THEN <<B64Alphabet[(data[1] \div 4) + 1],
           B64Alphabet[((data[1] % 4) * 16) + 1],
           B64Pad, B64Pad>>
    ELSE IF Len(data) = 2
    THEN <<B64Alphabet[(data[1] \div 4) + 1],
           B64Alphabet[((data[1] % 4) * 16) + (data[2] \div 16) + 1],
           B64Alphabet[((data[2] % 16) * 4) + 1],
           B64Pad>>
    ELSE <<B64Alphabet[(data[1] \div 4) + 1],
           B64Alphabet[((data[1] % 4) * 16) + (data[2] \div 16) + 1],
           B64Alphabet[((data[2] % 16) * 4) + (data[3] \div 64) + 1],
           B64Alphabet[(data[3] % 64) + 1]>>
         \o B64Encode(Drop(data, 3))

\* 'image/jpeg'
DefaultMime == <<"i", "m", "a", "g", "e", "/", "j", "p", "e", "g">>

\* The MIME type of the payload when the declared one is ignored.
MimeIgnored(frame) == DefaultMime

\* apic_data.mime or 'image/jpeg'
MimeOf(frame) == IF frame.mime = <<>> THEN DefaultMime ELSE frame.mime

\* f"data:{mime_type};base64,{base64_data}"
DataUrl(frame) ==
    <<"d", "a", "t", "a", ":">> \o MimeOf(frame)
    \o <<";", "b", "a", "s", "e", "6", "4", ",">> \o B64Encode(frame.data)

\* The first APIC frame of a tag, as a data URL.
FirstFrame(frames) == IF frames = <<>> THEN None ELSE Some(DataUrl(frames[1]))

\* extract_album_art where a file without any picture frame gets a
\* placeholder picture.
extract_album_art_placeholder(art) ==
    IF art.kind = "tags" /\ art.frames # <<>> THEN FirstFrame(art.frames)
    ELSE Some(DataUrl([mime |-> <<>>, data |-> <<>>]))

\* The direct ID3 access raised.
NoId3 == [ok |-> FALSE]

\* art is what the tag library makes of the file: [kind |-> "error"] when
\* opening it raises, [kind |-> "unknown"] when File() returns None, else
\* [kind |-> "tags", frames |-> the APIC frames of audio.tags (empty when
\* there are no tags), id3 |-> what the direct ID3 access gives:
\* [ok |-> FALSE] when it raises, [ok |-> TRUE, frames |-> its APIC frames]].
extract_album_art(art) ==
    IF art.kind # "tags" THEN None
    ELSE IF art.frames # <<>> THEN FirstFrame(art.frames)
    ELSE IF art.id3.ok THEN FirstFrame(art.id3.frames)
    ELSE None

----------------------------------------------------------------------------
(* process_single_file, rename_file and the batch driver.                  *)

BeatsPrefix == <<"b", "e", "a", "t", "s", "/">>

\* f"beats/{name}"
BeatsPath(name) == BeatsPrefix \o name

DigitChars == <<"0", "1", "2", "3", "4", "5", "6", "7", "8", "9">>

\* str(n) for n >= 0
RECURSIVE IntToStr(_)
IntToStr(n) ==
    IF n < 10 THEN <<DigitChars[n + 1]>>
    ELSE IntToStr(n \div 10) \o <<DigitChars[(n % 10) + 1]>>

\* {**base, **metadata}: the keys of metadata win.
Merge(base, metadata) ==
    [k \in DOMAIN base \cup DOMAIN metadata |->
        IF k \in DOMAIN metadata THEN metadata[k] ELSE base[k]]

\* d[k] = v
Put(d, k, v) == [x \in DOMAIN d \cup {k} |-> IF x = k THEN v ELSE d[x]]

\* not d.get(k), for a dict whose values are strings
GetIsEmpty(d, k) == k \notin DOMAIN d \/ d[k] = <<>>

\* The detected tempo written over whatever the filename gave.
UpdateBpmAlways(beat_data, metadata, display) ==
    IF Truthy(display)
    THEN Put(beat_data, "bpm", IntToStr(display[1]))
    ELSE beat_data

\* "Update BPM in metadata if filename didn't have it but we detected it"
UpdateBpm(beat_data, metadata, display) ==
    IF GetIsEmpty(metadata, "bpm") /\ Truthy(display)
    THEN Put(beat_data, "bpm", IntToStr(display[1]))
    ELSE beat_data

\* "Set mood based on detected BPM"
SetMood(beat_data, display) ==
    IF Truthy(display)
    THEN Put(beat_data, "mood", determine_mood_from_bpm(display[1]))
    ELSE beat_data

\* Steps 5 and later of BeatFormatterNoAI.process_single_file, given what
\* steps 1 to 3 returned (gen: generate_waveform_and_bpm's result).
AssembleRecord(file, sanitized_filename, size, gen, album_art, metadata) ==
    SetMood(UpdateBpm(Merge([originalFileName   |-> file,
                             newFileName        |-> sanitized_filename,
                             filePath           |-> BeatsPath(sanitized_filename),
                             fileSize           |-> size,
                             waveform           |-> gen.waveform,
                             detectedBpmExact   |-> gen.exact,
                             detectedBpmDisplay |-> gen.display,
                             albumArt           |-> album_art],
                            metadata),
                      metadata, gen.display),
            gen.display)

\* The outcome of a call that may raise.
Outcome(raises, beat_data) ==
    IF raises THEN [raised |-> TRUE] ELSE [raised |-> FALSE, beat_data |-> beat_data]

\* Whether a stage of process_single_file raises: generate_waveform_and_bpm
\* (gen_raised) or file_path.stat().
StageRaises(gen_raised, stat_ok) == gen_raised \/ ~stat_ok

SingleFileOutcome(file, size, gen, stat_ok, album_art, compound) ==
    Outcome(StageRaises(gen.raised, stat_ok),
            AssembleRecord(file, sanitize_filename(file), size, gen, album_art,
                           extract_metadata_from_filename(file, compound)))

\* BeatFormatterNoAI.process_single_file.  stat_ok tells whether
\* file_path.stat() succeeds; when it raises, so does the call.  audio, art
\* and compound are what the audio library, the tag library and the
\* lexicon analyzer make of the file.
process_single_file(file, size, audio, stat_ok, art, compound) ==
    SingleFileOutcome(file, size,
                      generate_waveform_and_bpm(audio, DefaultMaxPoints), stat_ok,
                      extract_album_art(art), compound)

\* Step 4 and later of BeatFormatter.process_single_file, for a metadata
\* value that is a dict.
AssembleRecordAI(file, sanitized_filename, size, gen, fields) ==
    UpdateBpm(Merge([originalFileName |-> file,
                     newFileName      |-> sanitized_filename,
                     filePath         |-> BeatsPath(sanitized_filename),
                     fileSize         |-> size,
                     waveform         |-> gen.waveform,
                     detectedBpm      |-> gen.display],
                    fields),
              fields, gen.display)

\* Unpacking **metadata raises TypeError when the value the extractor
\* returned is not a dict.
SingleFileOutcomeAI(file, size, gen, stat_ok, metadata) ==
    Outcome(StageRaises(gen.raised, stat_ok) \/ metadata.t # "object",
            AssembleRecordAI(file, sanitize_filename(file), size, gen,
                             metadata.fields))

\* BeatFormatter.process_single_file
process_single_file_ai(file, size, audio, stat_ok, reply) ==
    SingleFileOutcomeAI(file, size,
                        generate_waveform_and_bpm(audio, DefaultMaxPoints),
                        stat_ok, extract_metadata_with_ai(file, reply))

\* rename_file without the check for an existing target: os.rename replaces
\* the target file.
rename_file_overwriting(dir, old_name, new_filename, os_ok) ==
    IF ~os_ok
    THEN [success |-> FALSE, outcome |-> "oserror", fs |-> dir]
    ELSE [success |-> TRUE, outcome |-> "renamed",
          fs |-> [n \in (DOMAIN dir \ {old_name}) \cup {new_filename} |->
                     IF n = new_filename THEN dir[old_name] ELSE dir[n]]]

\* rename_file on directory dir: skip when the target name exists, return
\* False when os.rename raises (os_ok = FALSE), else move the content.
rename_file(dir, old_name, new_filename, os_ok) ==
    IF new_filename \in DOMAIN dir
    THEN [success |-> FALSE, outcome |-> "exists", fs |-> dir]
    ELSE IF ~os_ok
    THEN [success |-> FALSE, outcome |-> "oserror", fs |-> dir]
    ELSE [success |-> TRUE, outcome |-> "renamed",
          fs |-> [n \in (DOMAIN dir \ {old_name}) \cup {new_filename} |->
                     IF n = new_filename THEN dir[old_name] ELSE dir[n]]]

\* st_size of a file, a function of its content.
SizeOf(content) == Len(content)

\* A loop without the except clause: the exception ends process_all_files
\* and main.
OnFileErrorAbort == "exit"

\* The except clause of the loop of process_all_files: log and continue.
OnFileError == "loop"

----------------------------------------------------------------------------
(* The batch run: main constructs the formatter, process_all_files scans   *)
(* the directory, processes the files one by one and saves the document.   *)

MaxFiles == 2

\* The file names a beats directory may hold.
NamePool ==
    { <<"a", " ", "b">> \o Mp3Ext,
      <<"a", "-", "b">> \o Mp3Ext,
      <<"a", " ", " ", "b">> \o Mp3Ext,
      <<"9", "0", "b", "p", "m", "!">> \o Mp3Ext }

\* What the audio library makes of a file: a decode failure, silence (tempo
\* 0.0, all-zero energy) or a track at 95.6 beats per minute.
AudioOutcomes ==
    { [ok |-> FALSE],
      [ok |-> TRUE, tempo |-> 0, rms |-> <<0, 0>>],
      [ok |-> TRUE, tempo |-> 956, rms |-> <<2, 4, 1>>] }

\* What the metadata service does with a request.
FullReply ==
    [trackTitle |-> <<"T">>, producer |-> <<>>, type |-> TyTrap, mood |-> "Dark",
     genre |-> TyHipHop, year |-> <<>>, bpm |-> <<>>]

\* A reply with keys missing, and with a key the orchestrator sets itself.
PartialReply == [trackTitle |-> <<"T">>, filePath |-> <<"x">>]

Replies ==
    { [kind |-> "error"],
      [kind |-> "text"],
      [kind |-> "json", value |-> [t |-> "array"]],
      [kind |-> "json", value |-> [t |-> "object", fields |-> FullReply]],
      [kind |-> "json", value |-> [t |-> "object", fields |-> PartialReply]] }

\* The replies met in a batch run: a reply that is not JSON takes the path
\* of a failed call (except json.JSONDecodeError, except Exception), so the
\* failed call stands for both.
PoolReplies == Replies \ {[kind |-> "text"]}

\* The service is not called by BeatFormatterNoAI.
NoReply == [kind |-> "none"]

\* What the tag library makes of a file of the directory: no picture frame,
\* or one PNG frame of one byte.
PoolArts ==
    { [kind |-> "tags", frames |-> <<>>, id3 |-> NoId3],
      [kind |-> "tags",
       frames |-> <<[mime |-> <<"i", "m", "a", "g", "e", "/", "p", "n", "g">>,
                     data |-> <<77>>]>>,
       id3 |-> NoId3] }

\* The tags are not read by BeatFormatter.
NoArt == [kind |-> "unknown"]

\* The compound scores of the names of NamePool: none holds a word of the
\* lexicon.
PoolCompounds == {0}

\* The environment of one loop iteration.  A file that cannot be read at
\* all (stat raises) cannot be decoded either.
FileEnvs(with_ai) ==
    {[stat_ok |-> FALSE, audio |-> [ok |-> FALSE], os_ok |-> TRUE,
      reply |-> IF with_ai THEN [kind |-> "error"] ELSE NoReply,
      art |-> NoArt, compound |-> 0]}
    \cup
    {[stat_ok |-> TRUE, audio |-> a, os_ok |-> o, reply |-> r, art |-> p,
      compound |-> c] :
        a \in AudioOutcomes, o \in BOOLEAN,
        r \in IF with_ai THEN PoolReplies ELSE {NoReply},
        p \in IF with_ai THEN {NoArt} ELSE PoolArts,
        c \in IF with_ai THEN {0} ELSE PoolCompounds}

IsMp3(name) ==
    Len(name) >= Len(Mp3Ext) /\ Drop(name, Len(name) - Len(Mp3Ext)) = Mp3Ext

\* All orderings of the set S.
RECURSIVE Orderings(_)
Orderings(S) ==
    IF S = {} THEN {<<>>}
    ELSE UNION {{<<x>> \o rest : rest \in Orderings(S \ {x})} : x \in S}

EmptyDir == [n \in {} |-> n]

Init ==
    /\ arg = <<>>
    /\ res = <<>>
    /\ ai \in BOOLEAN
    /\ dry_run \in BOOLEAN
    /\ dir_exists \in BOOLEAN
    /\ fs \in IF dir_exists
              THEN {[n \in S |-> n] : S \in {T \in SUBSET NamePool : Cardinality(T) <= MaxFiles}}
              ELSE {EmptyDir}
    /\ mp3_files = <<>>
    /\ idx = 0
    /\ pc = "main"
    /\ beats_data = <<>>
    /\ saved = None
    /\ exit_code = None
    /\ hist = <<>>

\* A constructor without the existence test: the run goes on to the scan.
ConstructLenient ==
    /\ pc = "main"
    /\ pc' = "scan"
    /\ UNCHANGED <<arg, res, ai, dry_run, dir_exists, fs, mp3_files, idx,
                   beats_data, saved, exit_code, hist>>

\* __init__: a missing beats directory raises FileNotFoundError, which main
\* turns into exit code 1.
Construct ==
    /\ pc = "main"
    /\ IF dir_exists
       THEN pc' = "scan" /\ UNCHANGED exit_code
       ELSE pc' = "exit" /\ exit_code' = Some(1)
    /\ UNCHANGED <<arg, res, ai, dry_run, dir_exists, fs, mp3_files, idx,
                   beats_data, saved, hist>>

\* scan_mp3_files, in whatever order glob lists the directory; an empty
\* list makes process_all_files return without saving.
Scan ==
    /\ pc = "scan"
    /\ mp3_files' \in Orderings({n \in DOMAIN fs : IsMp3(n)})
    /\ idx' = 1
    /\ pc' = IF mp3_files' = <<>> THEN "return" ELSE "loop"
    /\ UNCHANGED <<arg, res, ai, dry_run, dir_exists, fs, beats_data, saved,
                   exit_code, hist>>

\* What one loop iteration did, as recorded in hist.
HistEntry(file, env, raised, rename) ==
    [file |-> file, stat_ok |-> env.stat_ok, audio |-> env.audio,
     reply |-> env.reply, art |-> env.art, raised |-> raised, rename |-> rename]

\* The except clause: nothing is appended, the loop goes on.
FileFailed(file, env) ==
    /\ env.os_ok
    /\ pc' = OnFileError
    /\ hist' = Append(hist, HistEntry(file, env, TRUE, "none"))
    /\ UNCHANGED <<fs, beats_data>>

\* A loop that renames the file in a dry run as well.
FileAppendedRenaming(file, env, beat_data) ==
    /\ env.os_ok
    /\ beats_data' = Append(beats_data, beat_data)
    /\ fs' = rename_file(fs, file, beat_data.newFileName, TRUE).fs
    /\ hist' = Append(hist, HistEntry(file, env, FALSE, "none"))
    /\ pc' = "loop"

\* dry_run: the record is appended and nothing is renamed.
FileAppended(file, env, beat_data) ==
    /\ env.os_ok
    /\ beats_data' = Append(beats_data, beat_data)
    /\ hist' = Append(hist, HistEntry(file, env, FALSE, "none"))
    /\ pc' = "loop"
    /\ UNCHANGED fs

\* A loop that appends the record only once the rename has succeeded.
FileRenamedDropping(file, env, beat_data, ren) ==
    /\ (ren.outcome = "exists" => env.os_ok)
    /\ beats_data' = IF ren.success
                      THEN Append(beats_data,
                                  Put(beat_data, "filePath", BeatsPath(beat_data.newFileName)))
                      ELSE beats_data
    /\ fs' = ren.fs
    /\ hist' = Append(hist, HistEntry(file, env, FALSE, ren.outcome))
    /\ pc' = "loop"

\* The record is appended, then rename_file is called (ren: its result) and
\* on success filePath is set again.
FileRenamed(file, env, beat_data, ren) ==
    /\ (ren.outcome = "exists" => env.os_ok)
    /\ beats_data' = Append(beats_data,
                            IF ren.success
                            THEN Put(beat_data, "filePath", BeatsPath(beat_data.newFileName))
                            ELSE beat_data)
    /\ fs' = ren.fs
    /\ hist' = Append(hist, HistEntry(file, env, FALSE, ren.outcome))
    /\ pc' = "loop"

LoopBody(file, env, out) ==
    IF out.raised THEN FileFailed(file, env)
    ELSE IF dry_run THEN FileAppended(file, env, out.beat_data)
    ELSE FileRenamed(file, env, out.beat_data,
                     rename_file(fs, file, out.beat_data.newFileName, env.os_ok))

\* process_single_file of the formatter in use, on the file as it is on disk.
CallSingleFile(file, size, env) ==
    IF ai THEN process_single_file_ai(file, size, env.audio, env.stat_ok, env.reply)
    ELSE process_single_file(file, size, env.audio, env.stat_ok, env.art,
                             env.compound)

\* One iteration of the loop of process_all_files: process the file,
\* append its record, rename it unless dry_run; an exception is logged and
\* the loop continues.
ProcessFile ==
    /\ pc = "loop"
    /\ idx <= Len(mp3_files)
    /\ \E env \in FileEnvs(ai) :
         LoopBody(mp3_files[idx], env,
                  CallSingleFile(mp3_files[idx], SizeOf(fs[mp3_files[idx]]), env))
    /\ idx' = idx + 1
    /\ UNCHANGED <<arg, res, ai, dry_run, dir_exists, mp3_files, saved, exit_code>>

\* The document save_beats_json builds from the batch.
OutputData(beats) == [totalBeats |-> Len(beats), beats |-> beats]

\* save_beats_json, after the loop: the document is built and written; a
\* failure to write is logged and swallowed (written = FALSE).
Save ==
    /\ pc = "loop"
    /\ idx > Len(mp3_files)
    /\ \E write_ok \in BOOLEAN :
         saved' = Some([written |-> write_ok, data |-> OutputData(beats_data)])
    /\ pc' = "return"
    /\ UNCHANGED <<arg, res, ai, dry_run, dir_exists, fs, mp3_files, idx,
                   beats_data, exit_code, hist>>

\* main returns 0 once process_all_files has returned.
Exit ==
    /\ pc = "return"
    /\ exit_code' = Some(0)
    /\ pc' = "exit"
    /\ UNCHANGED <<arg, res, ai, dry_run, dir_exists, fs, mp3_files, idx,
                   beats_data, saved, hist>>

Next == Construct \/ Scan \/ ProcessFile \/ Save \/ Exit

Spec == Init /\ [][Next]_vars

\* The batch variables while a pure function is exercised on its own.
BatchIdle ==
    /\ ai = FALSE
    /\ dry_run = FALSE
    /\ dir_exists = FALSE
    /\ fs = EmptyDir
    /\ mp3_files = <<>>
    /\ idx = 0
    /\ pc = "idle"
    /\ beats_data = <<>>
    /\ saved = None
    /\ exit_code = None
    /\ hist = <<>>

----------------------------------------------------------------------------
(* Filenames handed to the sanitizer: up to MaxChunks pieces drawn from    *)
(* SanitizeChunks, followed by one of SanitizeExts: the ".mp3" of the      *)
(* directory scan, the same in upper case, or nothing more.                *)

MaxChunks == 3

DateChunk == <<"2", "0", "2", "3", "0", "2", "0", "6", "_">>

SanitizeChunks ==
    { DateChunk,
      <<"F", "R", "E", "E">>,
      <<"[", "f", "r", "e", "e", "]", " ">>,
      <<"a">>, <<"B", "7">>, <<" ">>, <<"-">>, <<"_">>, <<"!">>, <<".">>,
      <<"U+00E9">> }

RECURSIVE ChunkSeqs(_)
ChunkSeqs(n) ==
    IF n = 0 THEN {<<>>}
    ELSE LET shorter == ChunkSeqs(n - 1)
         IN  shorter \cup {Append(cs, c) : cs \in shorter, c \in SanitizeChunks}

SanitizeExts == {Mp3Ext, <<".", "M", "P", "3">>, <<>>}

SanitizeInputs ==
    {Concat(cs) \o ext : cs \in ChunkSeqs(MaxChunks), ext \in SanitizeExts}

SanitizeInit ==
    /\ arg \in SanitizeInputs
    /\ res = <<>>
    /\ BatchIdle

\* The first call sanitizes the original name; the second re-sanitizes the
\* canonical name the first one returned.
SanitizeCall ==
    /\ Len(res) < 2
    /\ res' = Append(res, sanitize_filename(IF res = <<>> THEN arg
                                            ELSE res[Len(res)]))
    /\ UNCHANGED arg
    /\ UNCHANGED batchVars

SanitizeNext == SanitizeCall

SpecSanitize == SanitizeInit /\ [][SanitizeNext]_vars

----------------------------------------------------------------------------
(* C1: sanitize_filename is idempotent: re-sanitizing the canonical name   *)
(* returns the same name.                                                  *)
C1_Idempotent == Len(res) = 2 => res[2] = res[1]

\* The canonical-name pattern ^[A-Za-z0-9]+(-[A-Za-z0-9]+)*$ on a name part.
IsCanonicalNamePart(s) ==
    /\ s # <<>>
    /\ \A i \in 1..Len(s) : s[i] \in AsciiAlnum \cup {"-"}
    /\ s[1] # "-"
    /\ s[Len(s)] # "-"
    /\ \A i \in 1..(Len(s) - 1) : ~(s[i] = "-" /\ s[i + 1] = "-")

(* C2: the output of sanitize_filename is the bare extension, or ASCII     *)
(* alphanumerics separated by single hyphens followed by the extension.    *)
C2_CanonicalShape ==
    Len(res) >= 1 =>
        LET out  == res[1]
            n    == Len(out) - Len(Mp3Ext)
        IN  /\ n >= 0
            /\ SubSeq(out, n + 1, Len(out)) = Mp3Ext
            /\ (n = 0 \/ IsCanonicalNamePart(SubSeq(out, 1, n)))

\* Path(name).suffix: what Path(name).stem leaves out.
PathSuffix(name) ==
    IF name = <<".">> THEN <<>> ELSE Drop(name, Len(PathStem(name)))

(* C20: the canonical name ends with the extension the input had, in the   *)
(* same characters and case.                                               *)
C20_KeepsExtension == Len(res) >= 1 => PathSuffix(res[1]) = PathSuffix(arg)

----------------------------------------------------------------------------
(* The text sentiment on its own: every compound score of the lexicon      *)
(* analyzer, with filenames that hit the positive keywords more often,     *)
(* less often and as often as the negative ones.                           *)

SentimentNames ==
    { <<"x">> \o Mp3Ext,
      <<"l", "o", "v", "e">> \o Mp3Ext,
      <<"s", "a", "d">> \o Mp3Ext,
      <<"l", "o", "v", "e", " ", "s", "a", "d">> \o Mp3Ext,
      <<"S", "a", "d", " ", "A", "l", "o", "n", "e", " ", "l", "o", "v", "e">> \o Mp3Ext }

SentimentInit ==
    /\ arg \in [compound : Compounds, filename : SentimentNames]
    /\ res = <<>>
    /\ BatchIdle

SentimentCall ==
    /\ res = <<>>
    /\ res' = <<[decisive         |-> DecisiveScore(arg.compound, ToLower(arg.filename)),
                 sentimentScore   |-> TextSentiment(arg.filename, arg.compound),
                 sentimentDisplay |->
                     SentimentDisplay(TextSentiment(arg.filename, arg.compound))]>>
    /\ UNCHANGED arg
    /\ UNCHANGED batchVars

SentimentNext == SentimentCall

SpecSentiment == SentimentInit /\ [][SentimentNext]_vars

(* C11: for every compound score in [-1,1] and every combination of        *)
(* keyword hits, the text sentiment has a raw score in [-1,1] and a        *)
(* display score that is an integer from 1 to 10.                          *)
C11_SentimentBounded ==
    res # <<>> =>
        /\ res[1].sentimentScore \in -100000..100000
        /\ res[1].sentimentDisplay \in 1..10

\* A strongly positive text, whose amplified score 1.3 is cut back to 1.0.
C11_Witness ==
    /\ res # <<>>
    /\ arg.compound = 10000
    /\ res[1].sentimentScore = 100000
    /\ res[1].sentimentDisplay = 10

\* How many words of the list the lowercased filename of the call holds.
Hits(words) == KeywordCount(ToLower(arg.filename), words)

(* C22: the lexicon score is replaced exactly when its magnitude is below  *)
(* 0.1: by 0.3 when more positive than negative keywords are found, by     *)
(* -0.3 when more negative ones are, by -0.1 on a tie; a score of          *)
(* magnitude 0.1 or more goes on unchanged.                                *)
C22_DecisivenessCorrection ==
    res # <<>> =>
        IF -1000 < arg.compound /\ arg.compound < 1000
        THEN /\ Hits(PositiveKeywords) > Hits(NegativeKeywords) => res[1].decisive = 30000
             /\ Hits(NegativeKeywords) > Hits(PositiveKeywords) => res[1].decisive = -30000
             /\ Hits(NegativeKeywords) = Hits(PositiveKeywords) => res[1].decisive = -10000
        ELSE res[1].decisive = arg.compound * 10

\* A lexicon score just below 0.1 on a filename with two negative keywords
\* and one positive one was replaced by -0.3.
C22_Witness ==
    /\ res # <<>>
    /\ arg.compound = 999
    /\ Hits(NegativeKeywords) = 2
    /\ Hits(PositiveKeywords) = 1
    /\ res[1].decisive = -30000

(* C30: the final raw score is never strictly between -0.1 and 0.1, never *)
(* above 0.2 up to 0.26 and never from -0.26 up to below -0.2: it lies in  *)
(* [-1,-0.26), [-0.2,-0.1], [0.1,0.2] or (0.26,1].                         *)
C30_ScoreBands ==
    res # <<>> =>
        \/ res[1].sentimentScore \in -100000..-26001
        \/ res[1].sentimentScore \in -20000..-10000
        \/ res[1].sentimentScore \in 10000..20000
        \/ res[1].sentimentScore \in 26001..100000

\* The lexicon score 0.2 stays at the edge of its band, not amplified.
C30_Witness ==
    /\ res # <<>>
    /\ arg.compound = 2000
    /\ res[1].sentimentScore = 20000

\* The value of the display curve at raw score s, in hundred-thousandths,
\* bucket by bucket.
CurveValue(s) ==
    CASE s >= 50000                -> 800000 + (s - 50000) * 4
      [] 10000 <= s /\ s < 50000  -> 600000 + (s - 10000) * 5
      [] -10000 <= s /\ s < 10000 -> 500000
      [] -50000 <= s /\ s < -10000 -> 300000 + (s + 50000) * 5
      [] s < -50000                -> 100000 + (s + 100000) * 2

\* r is an integer nearest to v hundred-thousandths.
IsNearest(r, v) == 2 * (r * 100000 - v) <= 100000 /\ 2 * (v - r * 100000) <= 100000

(* C21: the display score is the value of the piecewise curve at the final *)
(* raw score, each boundary in the bucket that starts at it, rounded to a  *)
(* nearest integer and clamped to 1..10.                                   *)
C21_DisplayCurve ==
    res # <<>> =>
        \E r \in 0..11 :
            /\ IsNearest(r, CurveValue(res[1].sentimentScore))
            /\ res[1].sentimentDisplay = Max({1, Min({10, r})})

\* A raw score on the boundary 0.1, which belongs to the bucket 6..7.
C21_Witness ==
    /\ res # <<>>
    /\ res[1].sentimentScore = 10000
    /\ res[1].sentimentDisplay = 6

----------------------------------------------------------------------------
(* The audio analysis on its own: every energy curve of up to MaxFrames    *)
(* frames with values up to MaxRms, downsampled to 0..MaxPoints points.    *)

MaxFrames == 5

MaxRms == 2

MaxPoints == 5

RECURSIVE RmsCurves(_)
RmsCurves(n) ==
    IF n = 1 THEN {<<v>> : v \in 0..MaxRms}
    ELSE LET shorter == RmsCurves(n - 1)
         IN  shorter \cup {Append(c, v) : c \in {x \in shorter : Len(x) = n - 1},
                                          v \in 0..MaxRms}

WaveInit ==
    /\ arg \in [audio : {[ok |-> TRUE, tempo |-> t, rms |-> c] :
                            t \in {0, 956}, c \in RmsCurves(MaxFrames)},
                max_points : 0..MaxPoints]
    /\ res = <<>>
    /\ BatchIdle

WaveCall ==
    /\ res = <<>>
    /\ res' = <<generate_waveform_and_bpm(arg.audio, arg.max_points)>>
    /\ UNCHANGED arg
    /\ UNCHANGED batchVars

WaveNext == WaveCall

SpecWave == WaveInit /\ [][WaveNext]_vars

(* C12: for a decodable input and any max_points, the waveform returned by *)
(* generate_waveform_and_bpm has at most max_points elements, each in      *)
(* [0,1].                                                                  *)
C12_WaveformBounded ==
    res # <<>> =>
        /\ Len(res[1].waveform) <= arg.max_points
        /\ \A i \in 1..Len(res[1].waveform) :
              res[1].waveform[i] >= 0 /\ res[1].waveform[i] <= 1000

\* A curve longer than max_points was downsampled to max_points values,
\* its peak among them.
C12_Witness ==
    /\ res # <<>>
    /\ Len(arg.audio.rms) > arg.max_points
    /\ arg.max_points >= 2
    /\ Len(res[1].waveform) = arg.max_points
    /\ \E i \in 1..Len(res[1].waveform) : res[1].waveform[i] = 1000

\* k is an integer nearest to num / den (den > 0).
IsNearestInteger(k, num, den) ==
    2 * (k * den - num) <= den /\ 2 * (num - k * den) <= den

\* The normalized energy curve of the call.
NormalizedCurve == Normalize(arg.audio.rms)

(* C25: a normalized curve of n > max_points values is cut down to         *)
(* max_points values, the i-th (from 0) taken at index i*(n-1)/(max_points *)
(* -1) rounded to the nearest integer; a curve of n <= max_points values   *)
(* is returned as it is.                                                   *)
C25_NearestIndices ==
    res # <<>> =>
        IF Len(NormalizedCurve) <= arg.max_points
        THEN res[1].waveform = NormalizedCurve
        ELSE /\ Len(res[1].waveform) = arg.max_points
             /\ arg.max_points >= 2 =>
                   \A i \in 1..arg.max_points :
                       \E k \in 0..(Len(NormalizedCurve) - 1) :
                           /\ IsNearestInteger(k, (i - 1) * (Len(NormalizedCurve) - 1),
                                               arg.max_points - 1)
                           /\ res[1].waveform[i] = NormalizedCurve[k + 1]

(* C25, amended: the i-th value (from 0) is taken at index                 *)
(* i*(n-1)/(max_points-1) rounded down, the first at index 0 and the last  *)
(* at n-1; a single point is the first value; a curve of n <= max_points   *)
(* values is returned as it is.                                            *)
C25_FlooredIndices ==
    res # <<>> =>
        IF Len(NormalizedCurve) <= arg.max_points
        THEN res[1].waveform = NormalizedCurve
        ELSE /\ Len(res[1].waveform) = arg.max_points
             /\ arg.max_points = 1 => res[1].waveform[1] = NormalizedCurve[1]
             /\ arg.max_points >= 2 =>
                   /\ res[1].waveform[arg.max_points] = NormalizedCurve[Len(NormalizedCurve)]
                   /\ \A i \in 1..arg.max_points :
                         res[1].waveform[i] =
                             NormalizedCurve[1 + ((i - 1) * (Len(NormalizedCurve) - 1))
                                                    \div (arg.max_points - 1)]

\* Five values cut down to four: the third is taken at index 2 (8/3
\* rounded down), whose value differs from that at index 3.
C25_Witness ==
    /\ res # <<>>
    /\ Len(arg.audio.rms) = 5
    /\ arg.max_points = 4
    /\ NormalizedCurve[3] # NormalizedCurve[4]
    /\ res[1].waveform[3] = NormalizedCurve[3]

----------------------------------------------------------------------------
(* The album art on its own: tags whose first picture frame has up to      *)
(* MaxBytes bytes and a MIME type that is empty, ordinary or odd, found    *)
(* through audio.tags or through the direct ID3 access.                    *)

MaxBytes == 4

ByteSamples == {0, 77, 255}

RECURSIVE ByteStrings(_)
ByteStrings(n) ==
    IF n = 0 THEN {<<>>}
    ELSE LET shorter == ByteStrings(n - 1)
         IN  shorter \cup {Append(d, b) : d \in {x \in shorter : Len(x) = n - 1},
                                          b \in ByteSamples}

MimeSamples ==
    { <<>>,
      <<"i", "m", "a", "g", "e", "/", "p", "n", "g">>,
      <<"a", ",", "b">> }

FrameSamples == {[mime |-> m, data |-> d] : m \in MimeSamples, d \in ByteStrings(MaxBytes)}

ArtSamples ==
    {[kind |-> "error"], [kind |-> "unknown"],
     [kind |-> "tags", frames |-> <<>>, id3 |-> NoId3],
     [kind |-> "tags", frames |-> <<>>, id3 |-> [ok |-> TRUE, frames |-> <<>>]]}
    \cup {[kind |-> "tags", frames |-> <<f>>, id3 |-> NoId3] : f \in FrameSamples}
    \cup {[kind |-> "tags", frames |-> <<>>, id3 |-> [ok |-> TRUE, frames |-> <<f>>]] :
             f \in FrameSamples}

\* image_data_url.split(',')[1]: the text between the first comma and the
\* next one; None when there is no comma (IndexError).
AfterFirstComma(url) ==
    LET commas == {i \in 1..Len(url) : url[i] = ","}
    IN  IF commas = {} THEN None
        ELSE LET first == Min(commas)
                 later == {i \in commas : i > first}
                 last  == IF later = {} THEN Len(url) ELSE Min(later) - 1
             IN  Some(SubSeq(url, first + 1, last))

IsB64Char(c) == c = B64Pad \/ \E i \in 1..64 : B64Alphabet[i] = c

B64Index(c) == (CHOOSE i \in 1..64 : B64Alphabet[i] = c) - 1

\* The bytes of complete groups of four characters.
RECURSIVE B64DecodeGroups(_)
B64DecodeGroups(text) ==
    IF text = <<>> THEN <<>>
    ELSE IF text[3] = B64Pad
    THEN <<(B64Index(text[1]) * 4) + (B64Index(text[2]) \div 16)>>
    ELSE IF text[4] = B64Pad
    THEN <<(B64Index(text[1]) * 4) + (B64Index(text[2]) \div 16),
           ((B64Index(text[2]) % 16) * 16) + (B64Index(text[3]) \div 4)>>
    ELSE <<(B64Index(text[1]) * 4) + (B64Index(text[2]) \div 16),
           ((B64Index(text[2]) % 16) * 16) + (B64Index(text[3]) \div 4),
           ((B64Index(text[3]) % 4) * 64) + B64Index(text[4])>>
         \o B64DecodeGroups(Drop(text, 4))

\* base64.b64decode(text): characters outside the alphabet are discarded,
\* and what is left must come in groups of four (else binascii.Error: None).
B64Decode(text) ==
    LET clean == SelectSeq(text, IsB64Char)
    IN  IF Len(clean) % 4 # 0 THEN None ELSE Some(B64DecodeGroups(clean))

\* The bytes analyze_image_sentiment reads back from a data URL; None when
\* it fails.
DecodeImageData(url) ==
    IF AfterFirstComma(url) = None THEN None
    ELSE B64Decode(AfterFirstComma(url)[1])

\* The MIME type a reader takes from "data:<mime-type>;base64,<bytes>": the
\* text between "data:" and the first ";base64,".
DecodeMime(url) ==
    LET marker == <<";", "b", "a", "s", "e", "6", "4", ",">>
        at     == Min({i \in 1..Len(url) : MatchAt(url, i, marker)})
    IN  SubSeq(url, 6, at - 1)

ArtInit ==
    /\ arg \in ArtSamples
    /\ res = <<>>
    /\ BatchIdle

ArtCall ==
    /\ res = <<>>
    /\ res' = <<extract_album_art(arg)>>
    /\ UNCHANGED arg
    /\ UNCHANGED batchVars

ArtNext == ArtCall

SpecArt == ArtInit /\ [][ArtNext]_vars

\* Whether the tag holds a picture frame, and the first one found.
HasFrame(art) ==
    /\ art.kind = "tags"
    /\ art.frames # <<>> \/ (art.id3.ok /\ art.id3.frames # <<>>)

FoundFrame(art) == IF art.frames # <<>> THEN art.frames[1] ELSE art.id3.frames[1]

(* C19: for every embedded picture frame, whatever its bytes and its       *)
(* declared MIME type, the empty one included, decoding the data URL       *)
(* extract_album_art produced gives back the bytes and the MIME type of    *)
(* the frame.                                                              *)
C19_RoundTrip ==
    (res # <<>> /\ HasFrame(arg)) =>
        /\ res[1] # None
        /\ DecodeImageData(res[1][1]) = Some(FoundFrame(arg).data)
        /\ DecodeMime(res[1][1]) = FoundFrame(arg).mime

(* C19 as amended: a frame whose declared MIME type is non-empty and has   *)
(* no comma gets back its bytes and its MIME type; a frame with an empty   *)
(* MIME type gets back its bytes and the MIME type image/jpeg.             *)
C19_RoundTripDeclared ==
    (res # <<>> /\ HasFrame(arg)) =>
        /\ res[1] # None
        /\ FoundFrame(arg).mime = <<>> =>
              /\ DecodeImageData(res[1][1]) = Some(FoundFrame(arg).data)
              /\ DecodeMime(res[1][1]) = DefaultMime
        /\ (FoundFrame(arg).mime # <<>> /\ ~Contains(FoundFrame(arg).mime, <<",">>)) =>
              /\ DecodeImageData(res[1][1]) = Some(FoundFrame(arg).data)
              /\ DecodeMime(res[1][1]) = FoundFrame(arg).mime

\* A PNG frame of four bytes came back whole from its data URL.
C19_Witness ==
    /\ res # <<>>
    /\ HasFrame(arg)
    /\ FoundFrame(arg).mime = <<"i", "m", "a", "g", "e", "/", "p", "n", "g">>
    /\ Len(FoundFrame(arg).data) = 4
    /\ res[1] # None
    /\ DecodeImageData(res[1][1]) = Some(FoundFrame(arg).data)

----------------------------------------------------------------------------
(* The image sentiment scorer and the sentiment aggregator, which follow   *)
(* record assembly in the pipeline.  image_score is what the scorer makes  *)
(* of the picture, in hundred-thousandths.                                 *)

\* image_display = max(1, min(10, int(round((image_sentiment + 1) * 5))))
ImageDisplay(image_score) ==
    Max({1, Min({10, RoundRatio((image_score + 100000) * 5, 100000)})})

\* The image sentiment of a record: absent without album art.
ImageSentiment(album_art, image_score) ==
    IF album_art = None THEN None ELSE Some(image_score)

\* The combined score: the text score alone when there is no image score,
\* else the mean of the two.
CombineSentiment(text, image) ==
    IF image = None THEN text ELSE (text + image[1]) \div 2

\* The sentiment fields the pipeline adds to a record.
SentimentFields(text_score, text_display, image) ==
    [textSentimentScore       |-> text_score,
     textSentimentDisplay     |-> text_display,
     imageSentimentScore      |-> image,
     imageSentimentDisplay    |-> IF image = None THEN None
                                  ELSE Some(ImageDisplay(image[1])),
     combinedSentimentScore   |-> CombineSentiment(text_score, image),
     combinedSentimentDisplay |-> IF image = None THEN text_display
                                  ELSE RoundRatio(text_display + ImageDisplay(image[1]), 2)]

AggregateSentiment(beat_data, image_score) ==
    SentimentFields(beat_data.sentimentScore, beat_data.sentimentDisplay,
                    ImageSentiment(beat_data.albumArt, image_score))

----------------------------------------------------------------------------
(* analyze_image_sentiment.  picture is what the imaging library makes of  *)
(* the decoded bytes: [ok |-> FALSE] when it cannot open them, else the    *)
(* measurements numpy takes on the resized picture, in hundredths of the   *)
(* 0..255 scale.  Scores are in hundred-thousandths.                       *)

\* np.clip(x, -1, 1) without the bounds.
ClipScoreNone(x) == x

\* np.clip(x, -1, 1)
ClipScore(x) == Max({-100000, Min({100000, x})})

\* (brightness - 127.5) / 127.5
BrightnessScore(brightness) == ((brightness - 12750) * 400) \div 51

\* np.clip(color_temp / 50, -1, 1), color_temp = red_channel - blue_channel
TempScore(red_channel, blue_channel) == ClipScore((red_channel - blue_channel) * 20)

\* np.clip((x - 30) / 50, -1, 1), for the contrast and for the saturation
SpreadScore(x) == ClipScore((x - 3000) * 20)

\* "Weighted combination (brightness most important)"
WeightedSentiment(picture) ==
    (4 * BrightnessScore(picture.brightness)
     + 2 * TempScore(picture.red_channel, picture.blue_channel)
     + 2 * SpreadScore(picture.contrast)
     + 2 * SpreadScore(picture.saturation)) \div 10

DataPrefix == <<"d", "a", "t", "a", ":">>

\* The dict analyze_image_sentiment returns for a picture it could open.
ImageAnalysis(picture) ==
    [brightness_score |-> BrightnessScore(picture.brightness),
     temp_score       |-> TempScore(picture.red_channel, picture.blue_channel),
     contrast_score   |-> SpreadScore(picture.contrast),
     saturation_score |-> SpreadScore(picture.saturation),
     sentiment        |-> WeightedSentiment(picture),
     display          |-> ImageDisplay(WeightedSentiment(picture))]

\* analyze_image_sentiment: a text that does not start with "data:" falls
\* through to the implicit return None; every exception of the decoding
\* (no comma, bad base64, bytes that are no picture) is caught and gives
\* None as well.
analyze_image_sentiment(image_data_url, picture) ==
    IF ~MatchAt(image_data_url, 1, DataPrefix) THEN [raised |-> FALSE, result |-> None]
    ELSE IF DecodeImageData(image_data_url) = None THEN [raised |-> FALSE, result |-> None]
    ELSE IF ~picture.ok THEN [raised |-> FALSE, result |-> None]
    ELSE [raised |-> FALSE, result |-> Some(ImageAnalysis(picture))]

\* Pictures and their measurements: black, white, half black and half
\* white, grey 204, halves of grey 51 and 153, a solid orange (255,51,0), a
\* solid blue (0,51,255) and a solid warm grey (117,102,87).
PictureSamples ==
    { [ok |-> TRUE, brightness |-> 0, red_channel |-> 0, blue_channel |-> 0,
       contrast |-> 0, saturation |-> 0],
      [ok |-> TRUE, brightness |-> 25500, red_channel |-> 25500, blue_channel |-> 25500,
       contrast |-> 0, saturation |-> 0],
      [ok |-> TRUE, brightness |-> 12750, red_channel |-> 12750, blue_channel |-> 12750,
       contrast |-> 12750, saturation |-> 0],
      [ok |-> TRUE, brightness |-> 20400, red_channel |-> 20400, blue_channel |-> 20400,
       contrast |-> 0, saturation |-> 0],
      [ok |-> TRUE, brightness |-> 10200, red_channel |-> 10200, blue_channel |-> 10200,
       contrast |-> 5100, saturation |-> 0],
      [ok |-> TRUE, brightness |-> 10200, red_channel |-> 25500, blue_channel |-> 0,
       contrast |-> 11017, saturation |-> 10200],
      [ok |-> TRUE, brightness |-> 10200, red_channel |-> 0, blue_channel |-> 25500,
       contrast |-> 11017, saturation |-> 10200],
      [ok |-> TRUE, brightness |-> 10200, red_channel |-> 11700, blue_channel |-> 8700,
       contrast |-> 1225, saturation |-> 1000] }

\* Bytes the imaging library cannot open.
NoPicture == [ok |-> FALSE]

\* What is handed to the scorer: the data URLs extract_album_art builds, a
\* URL of another scheme, and data URLs without a comma or with a payload
\* that is no base64.
ImageUrls ==
    {DataUrl(f) : f \in FrameSamples}
    \cup { <<"h", "t", "t", "p", ":", "/", "/", "x">>,
           <<>>,
           DataPrefix \o <<"x">>,
           DataPrefix \o <<",", "A">> }

\* No picture can be opened from a URL that does not decode, or from no
\* bytes at all.
ImageInit ==
    /\ arg \in {a \in [url : ImageUrls, picture : PictureSamples \cup {NoPicture}] :
                    a.picture.ok =>
                        /\ MatchAt(a.url, 1, DataPrefix)
                        /\ DecodeImageData(a.url) # None
                        /\ DecodeImageData(a.url) # Some(<<>>)}
    /\ res = <<>>
    /\ BatchIdle

ImageCall ==
    /\ res = <<>>
    /\ res' = <<analyze_image_sentiment(arg.url, arg.picture)>>
    /\ UNCHANGED arg
    /\ UNCHANGED batchVars

ImageNext == ImageCall

SpecImage == ImageInit /\ [][ImageNext]_vars

\* x hundred-thousandths brought into [-1, 1].
Within1(x) == IF x > 100000 THEN 100000 ELSE IF x < -100000 THEN -100000 ELSE x

\* The four scores of the picture of the call, written out from its
\* measurements, in hundred-thousandths.
ExpectedScores ==
    [brightness |-> ((arg.picture.brightness - 12750) * 100000) \div 12750,
     temp       |-> Within1(((arg.picture.red_channel - arg.picture.blue_channel) * 1000) \div 50),
     contrast   |-> Within1(((arg.picture.contrast - 3000) * 1000) \div 50),
     saturation |-> Within1(((arg.picture.saturation - 3000) * 1000) \div 50)]

(* C26: for a picture that opens, the raw image score is 0.4 times the     *)
(* brightness score plus 0.2 times each of the temperature, contrast and   *)
(* saturation scores, these three clamped to [-1,1], so it lies in [-1,1]; *)
(* the display score is round((raw+1)*5) clamped to 1..10; for an input    *)
(* that is no decodable data URL the scorer returns nothing, without       *)
(* raising.                                                                *)
C26_ImageSentiment ==
    res # <<>> =>
        /\ ~res[1].raised
        /\ IF arg.picture.ok
           THEN /\ res[1].result # None
                /\ res[1].result[1].sentiment * 10 =
                       4 * ExpectedScores.brightness + 2 * ExpectedScores.temp
                       + 2 * ExpectedScores.contrast + 2 * ExpectedScores.saturation
                /\ res[1].result[1].sentiment \in -100000..100000
                /\ \E r \in 0..10 :
                      /\ 2 * (r * 100000 - (res[1].result[1].sentiment + 100000) * 5) <= 100000
                      /\ 2 * ((res[1].result[1].sentiment + 100000) * 5 - r * 100000) <= 100000
                      /\ res[1].result[1].display = Max({1, Min({10, r})})
           ELSE res[1].result = None

\* The solid orange picture: temperature, contrast and saturation are all
\* cut back to 1, the raw score is 0.52 and the display score 8.
C26_Witness ==
    /\ res # <<>>
    /\ arg.picture.ok
    /\ arg.picture.red_channel - arg.picture.blue_channel = 25500
    /\ res[1].result # None
    /\ res[1].result[1].sentiment = 52000
    /\ res[1].result[1].display = 8

----------------------------------------------------------------------------
(* process_single_file on its own: one file, with what the audio library,  *)
(* the tag library, the lexicon analyzer and the image scorer make of it.  *)

RecordFiles ==
    { <<"x">> \o Mp3Ext,
      <<"1", "4", "0", "B", "P", "M">> \o Mp3Ext,
      <<"9", "0", "b", "p", "m", " ", "l", "o", "v", "e">> \o Mp3Ext,
      <<"s", "a", "d">> \o Mp3Ext }

RecordArts ==
    { [kind |-> "error"], [kind |-> "unknown"],
      [kind |-> "tags", frames |-> <<>>, id3 |-> NoId3],
      [kind |-> "tags", frames |-> <<>>, id3 |-> [ok |-> TRUE, frames |-> <<>>]],
      [kind |-> "tags",
       frames |-> <<[mime |-> <<"i", "m", "a", "g", "e", "/", "p", "n", "g">>,
                     data |-> <<77>>]>>,
       id3 |-> NoId3],
      [kind |-> "tags", frames |-> <<>>,
       id3 |-> [ok |-> TRUE, frames |-> <<[mime |-> <<>>, data |-> <<>>]>>]] }

RecordInit ==
    /\ arg \in [file : RecordFiles, audio : AudioOutcomes, art : RecordArts,
                compound : {-6249, 0, 6249}, image_score : {-50000, 30000},
                stat_ok : BOOLEAN]
    /\ res = <<>>
    /\ BatchIdle

\* The sentiment stages run on the record process_single_file returned.
RecordResult(out, image_score) ==
    IF out.raised THEN out
    ELSE [raised |-> FALSE, beat_data |-> out.beat_data,
          sentiment |-> AggregateSentiment(out.beat_data, image_score)]

RecordCall ==
    /\ res = <<>>
    /\ res' = <<RecordResult(process_single_file(arg.file, SizeOf(arg.file), arg.audio,
                                                 arg.stat_ok, arg.art, arg.compound),
                             arg.image_score)>>
    /\ UNCHANGED arg
    /\ UNCHANGED batchVars

RecordNext == RecordCall

SpecRecord == RecordInit /\ [][RecordNext]_vars

\* The display tempo the audio analysis detected: 0 when it detected none.
DetectedTempo(audio) == IF audio.ok THEN RoundHalfEven(audio.tempo) ELSE 0

(* C14: the bpm field of a record comes from the filename only: it is the  *)
(* digits of the BPM token of the filename, and empty when the filename    *)
(* has no such token, whatever tempo was detected.                         *)
C14_BpmFromFilenameOnly ==
    (res # <<>> /\ ~res[1].raised) =>
        res[1].beat_data.bpm = ExtractBpm(arg.file)

(* C14 as amended: the bpm field is the digits of the BPM token of the     *)
(* filename when it has one; without a token it is the detected display    *)
(* tempo in decimal when a non-zero tempo was detected, and empty          *)
(* otherwise.                                                              *)
C14_BpmFromFilenameElseTempo ==
    (res # <<>> /\ ~res[1].raised) =>
        res[1].beat_data.bpm =
            IF ExtractBpm(arg.file) # <<>> THEN ExtractBpm(arg.file)
            ELSE IF DetectedTempo(arg.audio) # 0 THEN IntToStr(DetectedTempo(arg.audio))
            ELSE <<>>

\* A file named with 140BPM and detected at 96 keeps 140, and a file
\* without a token gets 96.
C14_Witness ==
    /\ res # <<>>
    /\ ~res[1].raised
    /\ DetectedTempo(arg.audio) = 96
    /\ \/ ExtractBpm(arg.file) = <<"1", "4", "0">> /\ res[1].beat_data.bpm = <<"1", "4", "0">>
       \/ ExtractBpm(arg.file) = <<>> /\ res[1].beat_data.bpm = <<"9", "6">>

----------------------------------------------------------------------------
(* The mood classifier on its own: every tempo from 0 to MaxTempo.         *)

MaxTempo == 200

MoodInit ==
    /\ arg \in 0..MaxTempo
    /\ res = <<>>
    /\ BatchIdle

MoodCall ==
    /\ res = <<>>
    /\ res' = <<determine_mood_from_bpm(arg)>>
    /\ UNCHANGED arg
    /\ UNCHANGED batchVars

MoodNext == MoodCall

SpecMood == MoodInit /\ [][MoodNext]_vars

(* C8: determine_mood_from_bpm returns, for every tempo t >= 0, exactly    *)
(* one of four moods: t <= 69 Chill, 70..95 R&B, 96..125 Boom Bap,         *)
(* t >= 126 Trap.                                                          *)
C8_MoodThresholds ==
    res # <<>> =>
        /\ res[1] \in {"Chill", "R&B", "Boom Bap", "Trap"}
        /\ (res[1] = "Chill") = (arg \in 0..69)
        /\ (res[1] = "R&B") = (arg \in 70..95)
        /\ (res[1] = "Boom Bap") = (arg \in 96..125)
        /\ (res[1] = "Trap") = (arg >= 126)

C8_Witness == arg = 126 /\ res = <<"Trap">>

----------------------------------------------------------------------------
(* The two extractors side by side on one filename: the service-backed one *)
(* under each behaviour of the service, and the filename heuristics.       *)

MaxMetaChunks == 2

MetaChunks ==
    { <<"\"", "A", "l", "o", "n", "e", "\"">>,
      <<"U+201C", "H", "o", "p", "e", "U+201D">>,
      <<"(", "P", "r", "o", "d", ".", " ", "F", "l", "a", "k", ")">>,
      <<"J", " ", "C", "o", "l", "e", " ", "x", " ", "N", "a", "s", " ",
        "T", "y", "p", "e", " ", "B", "e", "a", "t">>,
      <<"F", "r", "e", "e", " ">>,
      <<"2", "0", "2", "3">>,
      <<"1", "4", "0", "B", "P", "M">>,
      <<" ">>,
      <<"t", "r", "a", "p">>,
      <<"h", "i", "p", " ", "h", "o", "p">>,
      <<"i", "n", "s", "t", "r", "u", "m", "e", "n", "t", "a", "l">>,
      DateChunk }

RECURSIVE MetaChunkSeqs(_)
MetaChunkSeqs(n) ==
    IF n = 0 THEN {<<>>}
    ELSE LET shorter == MetaChunkSeqs(n - 1)
         IN  shorter \cup {Append(cs, c) : cs \in shorter, c \in MetaChunks}

\* Compound scores the lexicon analyzer may give these names.
MetaCompounds == {-6249, 0}

MetaInputs == {Concat(cs) \o Mp3Ext : cs \in MetaChunkSeqs(MaxMetaChunks)}

MetaInit ==
    /\ arg \in MetaInputs
    /\ res = <<>>
    /\ BatchIdle

MetaCall ==
    /\ res = <<>>
    /\ \E reply \in Replies, compound \in MetaCompounds :
         res' = <<[reply     |-> reply,
                   ai        |-> extract_metadata_with_ai(arg, reply),
                   heuristic |-> extract_metadata_from_filename(arg, compound)]>>
    /\ UNCHANGED arg
    /\ UNCHANGED batchVars

MetaNext == MetaCall

SpecMeta == MetaInit /\ [][MetaNext]_vars

\* d.get(k, ""): a missing key reads as empty.
FieldOf(d, k) == IF k \in DOMAIN d THEN d[k] ELSE <<>>

(* C6: when the service call fails or its reply is not JSON, the           *)
(* service-backed extractor returns the field values the filename          *)
(* heuristics return: title, producer, artists, category, year, BPM.       *)
C6_FallbackEqualsHeuristic ==
    (res # <<>> /\ res[1].reply.kind \in {"error", "text"}) =>
        /\ res[1].ai.t = "object"
        /\ \A k \in {"trackTitle", "producer", "artists", "type", "year", "bpm"} :
              FieldOf(res[1].ai.fields, k) = FieldOf(res[1].heuristic, k)

(* C13: the extracted year ignores the leading 8-digit date prefix: it is  *)
(* the first 20xx run of the filename after that prefix, and empty when    *)
(* the only 20xx digits are those of the prefix.                           *)
C13_YearIgnoresDatePrefix ==
    res # <<>> =>
        /\ res[1].heuristic.year = ExtractYear(StripDatePrefix(arg))
        /\ res[1].reply.kind \in {"error", "text"} =>
              res[1].ai.fields.year = ExtractYear(StripDatePrefix(arg))

\* The text of the type-beat piece of MetaChunks and its two artists.
TypeBeatPhrase ==
    <<"J", " ", "C", "o", "l", "e", " ", "x", " ", "N", "a", "s", " ",
      "T", "y", "p", "e", " ", "B", "e", "a", "t">>

PhraseArtists == <<<<"J", " ", "C", "o", "l", "e">>, <<"N", "a", "s">>>>

\* The phrase stands in s at the start of a word.
PhraseAtWordStart(s) ==
    \E i \in 1..Len(s) :
        /\ MatchAt(s, i, TypeBeatPhrase)
        /\ i = 1 \/ s[i - 1] \notin AsciiAlnum

(* C15: a filename holding 'J Cole x Nas Type Beat' yields the artists     *)
(* J Cole and Nas and the category 'J Cole x Nas Type Beat'; no word that  *)
(* precedes the artists, such as 'Free', is taken into them.               *)
C15_ArtistsOfTypeBeat ==
    (res # <<>> /\ PhraseAtWordStart(arg)) =>
        /\ res[1].heuristic.artists = PhraseArtists
        /\ res[1].heuristic.type = TypeBeatPhrase

\* The category of the keyword table scanned in the order instrumental,
\* trap, boom bap, lofi, hip hop.
CategoryInStatedOrder(low) ==
    IF Contains(low, KwInstrumental) THEN TyInstrumental
    ELSE IF Contains(low, KwTrap) THEN TyTrap
    ELSE IF Contains(low, KwBoomBap) THEN TyBoomBap
    ELSE IF Contains(low, KwLofi) THEN TyLoFi
    ELSE IF Contains(low, KwHipHop) THEN TyHipHop
    ELSE <<>>

(* C23: a filename without 'type beat' gets the category of the first      *)
(* keyword it holds in the order instrumental, trap, boom bap, lofi,       *)
(* hip hop, and none when it holds no keyword; a filename whose type-beat  *)
(* phrase matched gets that phrase, not a keyword category.                *)
C23_KeywordPriority ==
    res # <<>> =>
        IF Contains(ToLower(arg), KwTypeBeat)
        THEN res[1].heuristic.artists # <<>> =>
                 res[1].heuristic.type \notin {TyInstrumental, TyTrap, TyBoomBap, TyLoFi, TyHipHop}
        ELSE res[1].heuristic.type = CategoryInStatedOrder(ToLower(arg))

\* The straight double quote and the curly double quotes U+201C, U+201D.
StraightAndCurlyQuotes == {"\"", "U+201C", "U+201D"}

\* The text between the first quotation mark of s that opens a non-empty
\* quoted text and the next quotation mark.
FirstQuotedText(s) ==
    LET closes(i) == {j \in (i + 1)..Len(s) : s[j] \in StraightAndCurlyQuotes}
        hits == {i \in 1..Len(s) : /\ s[i] \in StraightAndCurlyQuotes
                                   /\ closes(i) # {}
                                   /\ Min(closes(i)) > i + 1}
    IN  IF hits = {} THEN <<>>
        ELSE SubSeq(s, Min(hits) + 1, Min(closes(Min(hits))) - 1)

(* C24: the title is the text of the first quotation-mark pair of the      *)
(* filename, curly quotes counting like straight ones, and it is empty     *)
(* only when the filename has no quoted text.                              *)
C24_TitleInAnyQuotes == res # <<>> => res[1].heuristic.trackTitle = FirstQuotedText(arg)

----------------------------------------------------------------------------
(* Properties of the batch run.                                            *)

NotRaised(e) == ~e.raised

\* The loop iterations that appended a record, in order: the k-th one
\* appended beats_data[k].
Survivors == SelectSeq(hist, NotRaised)

\* The service replied with JSON that is not an object.
IsNonObject(reply) == reply.kind = "json" /\ reply.value.t # "object"

\* Whether the service reply of iteration e carries key k itself.
ReplyCarries(e, k) ==
    /\ e.reply.kind = "json"
    /\ e.reply.value.t = "object"
    /\ k \in DOMAIN e.reply.value.fields

(* C3: rename_file never overwrites: no step changes the content of a name *)
(* already in the directory or loses a content, and when the target name   *)
(* exists the step leaves the directory as it is and reports the failure   *)
(* without raising.                                                        *)
C3_NeverOverwrites ==
    [][/\ \A n \in DOMAIN fs : n \in DOMAIN fs' => fs'[n] = fs[n]
       /\ {fs'[n] : n \in DOMAIN fs'} = {fs[n] : n \in DOMAIN fs}
       /\ Cardinality(DOMAIN fs') = Cardinality(DOMAIN fs)
       /\ (/\ Len(beats_data') = Len(beats_data) + 1
           /\ ~dry_run
           /\ beats_data'[Len(beats_data')].newFileName \in DOMAIN fs)
          => /\ fs' = fs
             /\ hist'[Len(hist')].rename = "exists"
             /\ pc' = "loop"]_vars

\* A rename was skipped because another file holds the target name, and
\* both files are still there with their content.
C3_Witness ==
    \E k \in 1..Len(hist) :
        /\ hist[k].rename = "exists"
        /\ sanitize_filename(hist[k].file) # hist[k].file
        /\ fs[hist[k].file] = hist[k].file
        /\ sanitize_filename(hist[k].file) \in DOMAIN fs

(* C4: when the rename of a file is skipped because the target name        *)
(* exists, the file's record keeps the original path of the file.          *)
C4_CollisionKeepsOriginalPath ==
    \A k \in 1..Len(Survivors) :
        Survivors[k].rename = "exists" =>
            beats_data[k].filePath = BeatsPath(Survivors[k].file)

(* C5: a file whose processing raises contributes no record, every other   *)
(* file of the scanned list is still processed in turn, and the run ends   *)
(* by saving the batch document.                                           *)
C5_FailureIsolation ==
    mp3_files # <<>> =>
        /\ Len(hist) = idx - 1
        /\ \A i \in 1..Len(hist) : hist[i].file = mp3_files[i]
        /\ Len(beats_data) = Len(Survivors)
        /\ \A k \in 1..Len(Survivors) :
              \/ ReplyCarries(Survivors[k], "originalFileName")
              \/ beats_data[k].originalFileName = Survivors[k].file
        /\ pc \in {"loop", "return", "exit"}
        /\ pc \in {"return", "exit"} =>
              /\ Len(hist) = Len(mp3_files)
              /\ saved # None
              /\ saved[1].data = OutputData(beats_data)

\* A file raised, a later file was processed and recorded, the document
\* was saved.
C5_Witness ==
    /\ saved # None
    /\ \E i \in 1..Len(hist) : \E j \in (i + 1)..Len(hist) :
          hist[i].raised /\ ~hist[j].raised
    /\ saved[1].written
    /\ Len(saved[1].data.beats) = Len(Survivors)
    /\ Len(Survivors) >= 1

\* The keys of a complete record of BeatFormatter.
CompleteKeysAI ==
    {"originalFileName", "newFileName", "filePath", "fileSize", "waveform",
     "detectedBpm", "trackTitle", "producer", "type", "mood", "genre", "year",
     "bpm"}

(* C7: with the service-backed extractor, whatever the service does, a     *)
(* readable file yields a complete record in the batch.                    *)
C7_ServiceNeverDropsFile ==
    ai =>
        /\ \A i \in 1..Len(hist) : hist[i].stat_ok => ~hist[i].raised
        /\ \A k \in 1..Len(beats_data) : CompleteKeysAI \subseteq DOMAIN beats_data[k]

(* C9: in every record of BeatFormatterNoAI that has a display tempo, 0    *)
(* included, mood is determine_mood_from_bpm of that tempo.                *)
C9_MoodSetWheneverTempo ==
    ~ai =>
        \A k \in 1..Len(beats_data) :
            beats_data[k].detectedBpmDisplay # None =>
                beats_data[k].mood =
                    determine_mood_from_bpm(beats_data[k].detectedBpmDisplay[1])

(* C10: a decode failure does not raise: the record of a readable file is  *)
(* produced with an empty waveform, no exact tempo, no display tempo and   *)
(* an empty mood, and the loop goes on to the next file.                   *)
C10_DecodeFailureDegrades ==
    /\ \A i \in 1..Len(hist) :
          ~hist[i].audio.ok =>
              hist[i].raised = (~hist[i].stat_ok \/ (ai /\ IsNonObject(hist[i].reply)))
    /\ \A k \in 1..Len(Survivors) :
          ~Survivors[k].audio.ok =>
              /\ beats_data[k].waveform = <<>>
              /\ ~ai => /\ beats_data[k].detectedBpmExact = None
                        /\ beats_data[k].detectedBpmDisplay = None
                        /\ beats_data[k].mood = ""
              /\ ai => beats_data[k].detectedBpm = None
    /\ (hist # <<>> /\ ~hist[Len(hist)].audio.ok) =>
          /\ idx = Len(hist) + 1
          /\ pc \in {"loop", "return", "exit"}
          /\ (pc # "loop" => saved # None)

\* A readable file failed to decode, its degraded record is in the batch,
\* and the next file was processed after it.
C10_Witness ==
    /\ ~ai
    /\ \E i \in 1..Len(hist) :
          /\ ~hist[i].audio.ok /\ hist[i].stat_ok /\ ~hist[i].raised
          /\ i < Len(hist)
    /\ \E k \in 1..Len(Survivors) :
          ~Survivors[k].audio.ok /\ beats_data[k].waveform = <<>>

\* rec is the record loop iteration e appended: it names the file of e,
\* unless the service reply of e carried an originalFileName of its own.
IsRecordOf(rec, e) ==
    ReplyCarries(e, "originalFileName") \/ rec.originalFileName = e.file

\* beats holds the records of the iterations that did not raise, one each
\* and in loop order.
InLoopOrder(beats) ==
    /\ Len(beats) = Len(Survivors)
    /\ \A k \in 1..Len(Survivors) : IsRecordOf(beats[k], Survivors[k])

(* C17: the batch follows the scanned order: the loop visits the scanned   *)
(* list from its start, the records are those of the visited files that    *)
(* did not raise, one each and in the same order, whatever the renames     *)
(* did, and the saved document holds them in that order.                   *)
C17_BatchOrder ==
    /\ [i \in 1..Len(hist) |-> hist[i].file] = SubSeq(mp3_files, 1, Len(hist))
    /\ Len(hist) <= Len(mp3_files)
    /\ InLoopOrder(beats_data)
    /\ saved # None =>
          /\ Len(hist) = Len(mp3_files)
          /\ InLoopOrder(saved[1].data.beats)

\* Two files were recorded in scanned order although the rename of one of
\* them was skipped or failed, and the document was saved.
C17_Witness ==
    /\ saved # None
    /\ Len(saved[1].data.beats) = 2
    /\ \A k \in 1..2 : saved[1].data.beats[k].originalFileName = mp3_files[k]
    /\ \E k \in 1..Len(Survivors) : Survivors[k].rename \in {"exists", "oserror"}

(* C18: a missing beats directory ends the run at construction: nothing is *)
(* scanned, processed, renamed, recorded or saved, and main returns 1.     *)
C18_MissingDirectoryFatal ==
    ~dir_exists =>
        /\ pc \in {"main", "exit"}
        /\ mp3_files = <<>>
        /\ hist = <<>>
        /\ beats_data = <<>>
        /\ saved = None
        /\ fs = EmptyDir
        /\ pc = "exit" => exit_code = Some(1)

\* The run on a missing directory has ended with exit code 1.
C18_Witness == ~dir_exists /\ pc = "exit" /\ exit_code = Some(1) /\ saved = None

\* The directory as it was before the run: every file under its original
\* name (the content of a file is the name it started with).
InitialDir == [n \in {fs[m] : m \in DOMAIN fs} |-> n]

(* C27: what happens to a file does not depend on the other files of the   *)
(* batch being processed before or after it: its record names it and its   *)
(* canonical name, and whether it is renamed is what rename_file decides   *)
(* on the directory as the run found it, so that two files with the same   *)
(* canonical name fare the same in either order.                           *)
C27_OrderIndependent ==
    \A k \in 1..Len(Survivors) :
        /\ IsRecordOf(beats_data[k], Survivors[k])
        /\ ReplyCarries(Survivors[k], "newFileName")
              \/ beats_data[k].newFileName = sanitize_filename(Survivors[k].file)
        /\ (~dry_run /\ Survivors[k].rename # "oserror") =>
              Survivors[k].rename =
                  rename_file(InitialDir, Survivors[k].file,
                              sanitize_filename(Survivors[k].file), TRUE).outcome

(* C28: in a dry run the directory keeps the names and contents it had, no *)
(* rename is attempted, every file that is processed without an exception *)
(* still gets its record, and the batch document is still saved.          *)
C28_DryRunRenamesNothing ==
    dry_run =>
        /\ fs = InitialDir
        /\ \A i \in 1..Len(hist) : hist[i].rename = "none"
        /\ Len(beats_data) = Cardinality({i \in 1..Len(hist) : ~hist[i].raised})
        /\ (pc \in {"return", "exit"} /\ mp3_files # <<>>) =>
              /\ Len(hist) = Len(mp3_files)
              /\ saved # None
              /\ saved[1].data.totalBeats = Len(beats_data)
              /\ saved[1].data.beats = beats_data

\* A dry run has ended: two files whose names are not canonical are still
\* in the directory under those names, both recorded, the document written.
C28_Witness ==
    /\ dry_run
    /\ pc = "exit"
    /\ Len(beats_data) = 2
    /\ \A i \in 1..2 : /\ sanitize_filename(mp3_files[i]) # mp3_files[i]
                        /\ mp3_files[i] \in DOMAIN fs
                        /\ sanitize_filename(mp3_files[i]) \notin DOMAIN fs
    /\ saved # None
    /\ saved[1].written

(* C29: with the service-backed extractor, the fields the orchestrator     *)
(* owns are those of the source file whatever the service replied: the     *)
(* file's name, its canonical name and path, its size, and the waveform    *)
(* and display tempo of its audio.                                         *)
C29_OwnedFieldsFromFile ==
    ai =>
        \A k \in 1..Len(Survivors) :
            /\ beats_data[k].originalFileName = Survivors[k].file
            /\ beats_data[k].newFileName = sanitize_filename(Survivors[k].file)
            /\ beats_data[k].filePath = BeatsPath(sanitize_filename(Survivors[k].file))
            /\ beats_data[k].fileSize = SizeOf(Survivors[k].file)
            /\ beats_data[k].waveform =
                   generate_waveform_and_bpm(Survivors[k].audio, DefaultMaxPoints).waveform
            /\ beats_data[k].detectedBpm =
                   generate_waveform_and_bpm(Survivors[k].audio, DefaultMaxPoints).display

====
